---- MODULE Spec2Model ----
(***************************************************************************)
(* The JSON store of sops (stores/json/store.go): the order-preserving     *)
(* decoder built on json.Decoder.Token, the encoder, the metadata split of *)
(* LoadEncryptedFile and the merge of EmitEncryptedFile.                   *)
(*                                                                         *)
(* A document's bytes are modelled at lexical granularity: a sequence of   *)
(* fragments (delimiters, punctuation, literals as they are spelled,       *)
(* white space).  A Go value is a record [k, v] tagged with its dynamic    *)
(* type; a string is the sequence of its characters.  Numbers in a tree    *)
(* are float64, the type json.Decoder.Token yields for a JSON number.      *)
(***************************************************************************)
EXTENDS Integers, Sequences, FiniteSets, TLC

VARIABLES
    config,   \* Store.config: [Indent |-> n]
    fieldPath,\* how the linked encoding/json names UnmarshalTypeError.Field
    input,    \* what the caller holds: a Tree to emit, or the bytes of a file
    emitted,  \* the return of the Emit* call made on the caller's Tree
    loaded,   \* the return of the Load* call made on the bytes
    repeats   \* the calls of EmitEncryptedFile made on the Tree after the first

vars == <<config, fieldPath, input, emitted, loaded, repeats>>

(***************************************************************************)
(* Bounds of the model.                                                    *)
(***************************************************************************)
MaxItems == 3
MaxRepeats == 2

(***************************************************************************)
(* Go values.                                                              *)
(***************************************************************************)
GoString(s) == [k |-> "string", v |-> s]
GoFloat(n) == [k |-> "float64", v |-> n]
GoInt(n) == [k |-> "int", v |-> n]
GoBool(b) == [k |-> "bool", v |-> b]
GoNil == [k |-> "nil", v |-> 0]
GoChan == [k |-> "chan", v |-> 0]
Comment(s) == [k |-> "Comment", v |-> s]
TreeBranch(items) == [k |-> "TreeBranch", v |-> items]
Slice(elems) == [k |-> "slice", v |-> elems]
TreeItem(key, value) == [Key |-> key, Value |-> value]

(***************************************************************************)
(* Returns: (value, nil), (zero, err), or a panic unwinding the call.      *)
(***************************************************************************)
\* The element of the singleton S.  The({e : x \in {v}}) is e with x naming
\* the value of v, which is found once whatever the number of its uses in e.
The(S) == CHOOSE x \in S : TRUE

Ok(x) == [st |-> "ok", val |-> x, err |-> "nil"]
Err(e) == [st |-> "err", val |-> <<>>, err |-> e]
Panic(e) == [st |-> "panic", val |-> <<>>, err |-> e]

(***************************************************************************)
(* Fragments of JSON text.                                                 *)
(***************************************************************************)
Delim(c) == [k |-> "delim", v |-> c]
Punct(c) == [k |-> "punct", v |-> c]
StrLit(s) == [k |-> "strlit", v |-> s]
NumLit(s) == [k |-> "numlit", v |-> s]
Word(w) == [k |-> "word", v |-> w]
Space(s) == [k |-> "ws", v |-> s]

(***************************************************************************)
(* json.Marshal of a scalar.  A string is quoted with the quote and the    *)
(* backslash escaped; a number is written in decimal digits.               *)
(***************************************************************************)
EscapeChar(c) ==
    IF c = "\"" THEN <<"\\", "\"">>
    ELSE IF c = "\\" THEN <<"\\", "\\">>
    ELSE <<c>>

RECURSIVE Escape(_)
Escape(s) == IF s = <<>> THEN <<>> ELSE EscapeChar(Head(s)) \o Escape(Tail(s))

DigitChar(d) == <<"0", "1", "2", "3", "4", "5", "6", "7", "8", "9">>[d + 1]

RECURSIVE FormatNumber(_)
FormatNumber(n) ==
    IF n < 10 THEN <<DigitChar(n)>>
    ELSE Append(FormatNumber(n \div 10), DigitChar(n % 10))

MarshalString(s) == <<StrLit(Escape(s))>>

Marshal(v) ==
    CASE v.k = "string" -> Ok(MarshalString(v.v))
      [] v.k = "float64" -> Ok(<<NumLit(FormatNumber(v.v))>>)
      [] v.k = "int" -> Ok(<<NumLit(FormatNumber(v.v))>>)
      [] v.k = "bool" -> Ok(<<Word(IF v.v THEN "true" ELSE "false")>>)
      [] v.k = "nil" -> Ok(<<Word("null")>>)
      [] v.k = "Comment" ->
            Ok(<<Delim("{")>> \o MarshalString(<<"V", "a", "l", "u", "e">>)
               \o <<Punct(":")>> \o MarshalString(v.v) \o <<Delim("}")>>)
      [] v.k = "Metadata" ->
            Ok(<<Delim("{")>>
               \o MarshalString(<<"l", "a", "s", "t", "m", "o", "d", "i", "f", "i", "e", "d">>)
               \o <<Punct(":")>> \o MarshalString(v.v.lastmodified) \o <<Punct(",")>>
               \o MarshalString(<<"v", "e", "r", "s", "i", "o", "n">>)
               \o <<Punct(":")>> \o MarshalString(v.v.version) \o <<Delim("}")>>)
      [] OTHER -> Err("UnsupportedTypeError")

(***************************************************************************)
(* Store.encodeValue, Store.encodeArray, Store.encodeTree.                 *)
(***************************************************************************)
RECURSIVE encodeValue(_), encodeArrayFrom(_, _, _, _), encodeTreeFrom(_, _, _, _)

encodeArrayFrom(array, i, out, empty) ==
    IF i > Len(array) THEN Ok(Append(out, Delim("]")))
    ELSE IF array[i].k = "Comment" THEN encodeArrayFrom(array, i + 1, out, empty)
    ELSE LET sep == IF ~empty THEN Append(out, Punct(",")) ELSE out IN
         The({IF r.st # "ok" THEN r
              ELSE encodeArrayFrom(array, i + 1, sep \o r.val, FALSE)
              : r \in {encodeValue(array[i])}})

encodeTreeFrom(tree, i, out, empty) ==
    IF i > Len(tree) THEN Ok(Append(out, Delim("}")))
    ELSE IF tree[i].Key.k = "Comment" THEN encodeTreeFrom(tree, i + 1, out, empty)
    ELSE LET sep == IF ~empty THEN Append(out, Punct(",")) ELSE out IN
         The({IF r.st = "panic" THEN r
              ELSE IF r.st = "err" THEN Err("Error encoding value")
              ELSE IF tree[i].Key.k # "string"
                   THEN Panic("interface conversion: interface {} is not string")
              ELSE encodeTreeFrom(tree, i + 1,
                       sep \o MarshalString(tree[i].Key.v) \o <<Punct(": ")>> \o r.val,
                       FALSE)
              : r \in {encodeValue(tree[i].Value)}})

\* encodeArray with the separator written before the first element too.
encodeArraySeparatingFirst(array) == encodeArrayFrom(array, 1, <<Delim("[")>>, FALSE)

encodeArray(array) == encodeArrayFrom(array, 1, <<Delim("[")>>, TRUE)

encodeTree(tree) == encodeTreeFrom(tree, 1, <<Delim("{")>>, TRUE)

encodeValue(v) ==
    CASE v.k = "TreeBranch" -> encodeTree(v.v)
      [] v.k = "slice" -> encodeArray(v.v)
      [] OTHER -> Marshal(v)

(***************************************************************************)
(* json.Decoder: the Token API over the fragments of the input.            *)
(* A decoder is [pos, tokenState, tokenStack]; Token returns the token,    *)
(* the error and the decoder after the call.                               *)
(***************************************************************************)
NewDecoder == [pos |-> 1, tokenState |-> "tokenTopValue", tokenStack |-> <<>>]

DelimTok(c) == [k |-> "Delim", v |-> c]

IsDelim(tok, c) == tok.k = "Delim" /\ tok.v = c

RECURSIVE Unescape(_)
Unescape(s) ==
    IF s = <<>> THEN <<>>
    ELSE IF Head(s) = "\\" /\ Len(s) >= 2 THEN <<s[2]>> \o Unescape(SubSeq(s, 3, Len(s)))
    ELSE <<Head(s)>> \o Unescape(Tail(s))

DigitValue(c) == CHOOSE d \in 0..9 : DigitChar(d) = c

RECURSIVE ParseNumber(_)
ParseNumber(s) ==
    IF Len(s) = 1 THEN DigitValue(s[1])
    ELSE 10 * ParseNumber(SubSeq(s, 1, Len(s) - 1)) + DigitValue(s[Len(s)])

\* Whether the text between the quotes is that of one string literal: every
\* backslash escapes the character after it and no quote stands unescaped.
RECURSIVE ValidString(_)
ValidString(s) ==
    IF s = <<>> THEN TRUE
    ELSE IF Head(s) = "\\" THEN Len(s) >= 2 /\ ValidString(SubSeq(s, 3, Len(s)))
    ELSE Head(s) # "\"" /\ ValidString(Tail(s))

ValidLiteral(f) ==
    \/ f.k = "strlit" /\ ValidString(f.v)
    \/ f.k = "numlit" /\ f.v # <<>>
    \/ f.k = "word" /\ f.v \in {"true", "false", "null"}

\* Decoder.Decode(&x) with x of type any, on one literal.
DecodeLiteral(f) ==
    CASE f.k = "strlit" -> GoString(Unescape(f.v))
      [] f.k = "numlit" -> GoFloat(ParseNumber(f.v))
      [] f.k = "word" /\ f.v = "true" -> GoBool(TRUE)
      [] f.k = "word" /\ f.v = "false" -> GoBool(FALSE)
      [] OTHER -> GoNil

RECURSIVE SkipSpace(_, _)
SkipSpace(in, p) ==
    IF p <= Len(in) /\ in[p].k = "ws" THEN SkipSpace(in, p + 1) ELSE p

tokenValueAllowed(dec) ==
    dec.tokenState \in {"tokenTopValue", "tokenArrayStart", "tokenArrayValue", "tokenObjectValue"}

tokenValueEnd(dec) ==
    CASE dec.tokenState \in {"tokenArrayStart", "tokenArrayValue"} ->
            [dec EXCEPT !.tokenState = "tokenArrayComma"]
      [] dec.tokenState = "tokenObjectValue" ->
            [dec EXCEPT !.tokenState = "tokenObjectComma"]
      [] OTHER -> dec

TokenReturn(tok, err, dec) == [tok |-> tok, err |-> err, dec |-> dec]

RECURSIVE Token(_, _), TokenAt(_, _, _)
\* Token with the white space skipped: dec stands at the next fragment, next
\* behind it.
TokenAt(in, dec, next) ==
    IF dec.pos > Len(in) THEN TokenReturn(GoNil, "EOF", dec)
    ELSE LET c == in[dec.pos] IN
    CASE c.k = "delim" /\ c.v \in {"[", "{"} ->
            IF ~tokenValueAllowed(dec) THEN TokenReturn(GoNil, "SyntaxError", dec)
            ELSE TokenReturn(DelimTok(c.v), "nil",
                     [next EXCEPT !.tokenStack = Append(dec.tokenStack, dec.tokenState),
                                  !.tokenState = IF c.v = "[" THEN "tokenArrayStart"
                                                 ELSE "tokenObjectStart"])
      [] c.k = "delim" /\ c.v \in {"]", "}"} ->
            IF c.v = "]" /\ dec.tokenState \notin {"tokenArrayStart", "tokenArrayComma"}
            THEN TokenReturn(GoNil, "SyntaxError", dec)
            ELSE IF c.v = "}" /\ dec.tokenState \notin {"tokenObjectStart", "tokenObjectComma"}
            THEN TokenReturn(GoNil, "SyntaxError", dec)
            ELSE TokenReturn(DelimTok(c.v), "nil",
                     tokenValueEnd(
                         [next EXCEPT !.tokenState = dec.tokenStack[Len(dec.tokenStack)],
                                      !.tokenStack = SubSeq(dec.tokenStack, 1,
                                                            Len(dec.tokenStack) - 1)]))
      [] c.k = "punct" /\ c.v \in {":", ": "} ->
            IF dec.tokenState # "tokenObjectColon" THEN TokenReturn(GoNil, "SyntaxError", dec)
            ELSE Token(in, [next EXCEPT !.tokenState = "tokenObjectValue"])
      [] c.k = "punct" /\ c.v = "," ->
            IF dec.tokenState = "tokenArrayComma"
            THEN Token(in, [next EXCEPT !.tokenState = "tokenArrayValue"])
            ELSE IF dec.tokenState = "tokenObjectComma"
            THEN Token(in, [next EXCEPT !.tokenState = "tokenObjectKey"])
            ELSE TokenReturn(GoNil, "SyntaxError", dec)
      [] c.k = "strlit" /\ dec.tokenState \in {"tokenObjectStart", "tokenObjectKey"} ->
            IF ~ValidLiteral(c) THEN TokenReturn(GoNil, "SyntaxError", dec)
            ELSE TokenReturn(DecodeLiteral(c), "nil",
                        [next EXCEPT !.tokenState = "tokenObjectColon"])
      [] c.k \in {"strlit", "numlit", "word"} ->
            IF ~tokenValueAllowed(dec) \/ ~ValidLiteral(c) THEN TokenReturn(GoNil, "SyntaxError", dec)
            ELSE TokenReturn(DecodeLiteral(c), "nil", tokenValueEnd(next))
      [] OTHER -> TokenReturn(GoNil, "SyntaxError", dec)

Token(in, dec0) ==
    The({TokenAt(in, dec, [dec EXCEPT !.pos = dec.pos + 1])
         : dec \in {[dec0 EXCEPT !.pos = SkipSpace(in, dec0.pos)]}})

(***************************************************************************)
(* Store.sliceFromJSONDecoder, Store.treeItemFromJSONDecoder,              *)
(* Store.treeBranchFromJSONDecoder.  Each returns [val, err, dec].         *)
(***************************************************************************)
DecReturn(val, err, dec) == [val |-> val, err |-> err, dec |-> dec]

ZeroItem == TreeItem(GoNil, GoNil)

RECURSIVE sliceFromJSONDecoderLoop(_, _, _), treeItemFromJSONDecoder(_, _),
          treeItemValue(_, _), treeBranchFromJSONDecoderLoop(_, _, _)

sliceFromJSONDecoderLoop(in, dec, slice) ==
    The({
        IF t.err # "nil" THEN DecReturn(slice, t.err, t.dec)
        ELSE IF IsDelim(t.tok, "]") THEN DecReturn(slice, "nil", t.dec)
        ELSE IF IsDelim(t.tok, "{") THEN
            The({IF r.err # "nil" THEN DecReturn(slice, r.err, r.dec)
                 ELSE sliceFromJSONDecoderLoop(in, r.dec, Append(slice, TreeBranch(r.val)))
                 : r \in {treeBranchFromJSONDecoderLoop(in, t.dec, <<>>)}})
        ELSE IF IsDelim(t.tok, "[") THEN
            The({IF r.err # "nil" THEN DecReturn(slice, r.err, r.dec)
                 ELSE sliceFromJSONDecoderLoop(in, r.dec, Append(slice, Slice(r.val)))
                 : r \in {sliceFromJSONDecoderLoop(in, t.dec, <<>>)}})
        ELSE sliceFromJSONDecoderLoop(in, t.dec, Append(slice, t.tok))
        : t \in {Token(in, dec)}})

\* The value Token of an Item whose key Token is key.
treeItemValue(in, key) ==
    The({
        IF value.err # "nil" THEN DecReturn(TreeItem(key.tok, GoNil), value.err, value.dec)
        ELSE IF IsDelim(value.tok, "[") THEN
            The({IF r.err # "nil" THEN DecReturn(TreeItem(key.tok, GoNil), r.err, r.dec)
                 ELSE DecReturn(TreeItem(key.tok, Slice(r.val)), "nil", r.dec)
                 : r \in {sliceFromJSONDecoderLoop(in, value.dec, <<>>)}})
        ELSE IF IsDelim(value.tok, "{") THEN
            The({IF r.err # "nil" THEN DecReturn(TreeItem(key.tok, GoNil), r.err, r.dec)
                 ELSE DecReturn(TreeItem(key.tok, TreeBranch(r.val)), "nil", r.dec)
                 : r \in {treeBranchFromJSONDecoderLoop(in, value.dec, <<>>)}})
        ELSE IF value.tok.k = "Delim"
        THEN DecReturn(TreeItem(key.tok, GoNil), "nil", value.dec)
        ELSE DecReturn(TreeItem(key.tok, value.tok), "nil", value.dec)
        : value \in {Token(in, key.dec)}})

treeItemFromJSONDecoder(in, dec) ==
    The({
        IF key.err # "nil" /\ key.err # "EOF" THEN DecReturn(ZeroItem, key.err, key.dec)
        ELSE IF key.err = "nil" /\ IsDelim(key.tok, "}")
        THEN DecReturn(ZeroItem, "errEndOfObject", key.dec)
        ELSE IF ~(key.err = "nil" /\ key.tok.k = "string")
        THEN DecReturn(ZeroItem, "Expected JSON object key", key.dec)
        ELSE treeItemValue(in, key)
        : key \in {Token(in, dec)}})

treeBranchFromJSONDecoderLoop(in, dec, tree) ==
    The({
        IF r.err = "EOF" THEN DecReturn(tree, "nil", r.dec)
        ELSE IF r.err = "errEndOfObject" THEN DecReturn(tree, "nil", r.dec)
        ELSE IF r.err # "nil" THEN DecReturn(tree, r.err, r.dec)
        ELSE treeBranchFromJSONDecoderLoop(in, r.dec, Append(tree, r.val))
        : r \in {treeItemFromJSONDecoder(in, dec)}})

sliceFromJSONDecoder(in, dec) == sliceFromJSONDecoderLoop(in, dec, <<>>)

RECURSIVE Reverse(_)
Reverse(s) == IF s = <<>> THEN <<>> ELSE Append(Reverse(Tail(s)), Head(s))

\* treeBranchFromJSONDecoder putting each Item in front of the Branch.
treeBranchFromJSONDecoderPrepending(in, dec) ==
    The({[r EXCEPT !.val = Reverse(r.val)]
         : r \in {treeBranchFromJSONDecoderLoop(in, dec, <<>>)}})

treeBranchFromJSONDecoder(in, dec) == treeBranchFromJSONDecoderLoop(in, dec, <<>>)

(***************************************************************************)
(* Store.treeBranchFromJSON: Ok(the Branch's Items) or Err.                *)
(***************************************************************************)
treeBranchFromJSON(in) ==
    The({
        IF value.err # "nil" THEN Err(value.err)
        ELSE IF value.tok.k = "Delim" /\ value.tok.v # "{"
        THEN Err("Expected JSON object start, got delimiter")
        ELSE IF value.tok.k # "Delim" THEN Err("Expected JSON object start")
        ELSE The({IF r.err # "nil" THEN Err(r.err) ELSE Ok(r.val)
                  : r \in {treeBranchFromJSONDecoder(in, value.dec)}})
        : value \in {Token(in, NewDecoder)}})

(***************************************************************************)
(* json.Unmarshal(in, &stores.SopsFile{}).  The input is first checked to  *)
(* be one well-formed JSON value (checkValid), then decoded: the object    *)
(* key that matches the field tag "sops" (an exact match or one ignoring   *)
(* letter case) is stored into Metadata, every other key is skipped.  The  *)
(* first type mismatch is saved and returned once the input is consumed.   *)
(***************************************************************************)
IsFrag(f, kind, c) == f.k = kind /\ f.v = c

IsColon(f) == f.k = "punct" /\ f.v \in {":", ": "}

IsLiteral(f) == f.k \in {"strlit", "numlit", "word"} /\ ValidLiteral(f)

Good(p, x) == [ok |-> TRUE, pos |-> p, val |-> x]
Bad == [ok |-> FALSE, pos |-> 0, val |-> [k |-> "none", v |-> <<>>]]
JSONObject(members) == [k |-> "object", v |-> members]
JSONArray(elems) == [k |-> "array", v |-> elems]

RECURSIVE ParseValue(_, _), ParseMembers(_, _, _), ParseElements(_, _, _),
          ParseNext(_, _, _, _)

ParseValue(in, p0) ==
    The({
        IF p > Len(in) THEN Bad
        ELSE IF IsFrag(in[p], "delim", "{") THEN
            The({IF q <= Len(in) /\ IsFrag(in[q], "delim", "}")
                 THEN Good(q + 1, JSONObject(<<>>))
                 ELSE ParseMembers(in, p + 1, <<>>)
                 : q \in {SkipSpace(in, p + 1)}})
        ELSE IF IsFrag(in[p], "delim", "[") THEN
            The({IF q <= Len(in) /\ IsFrag(in[q], "delim", "]")
                 THEN Good(q + 1, JSONArray(<<>>))
                 ELSE ParseElements(in, p + 1, <<>>)
                 : q \in {SkipSpace(in, p + 1)}})
        ELSE IF IsLiteral(in[p]) THEN Good(p + 1, in[p])
        ELSE Bad
        : p \in {SkipSpace(in, p0)}})

\* What follows a member or an element whose value ParseValue read as r:
\* a comma and the rest, or the closing delimiter.
ParseNext(in, r, values, closing) ==
    The({
        IF e > Len(in) THEN Bad
        ELSE IF IsFrag(in[e], "punct", ",")
        THEN IF closing = "}" THEN ParseMembers(in, e + 1, values)
             ELSE ParseElements(in, e + 1, values)
        ELSE IF IsFrag(in[e], "delim", closing)
        THEN Good(e + 1, IF closing = "}" THEN JSONObject(values) ELSE JSONArray(values))
        ELSE Bad
        : e \in {SkipSpace(in, r.pos)}})

ParseMembers(in, p0, acc) ==
    The({
        The({
            IF p > Len(in) \/ q > Len(in) THEN Bad
            ELSE IF in[p].k # "strlit" \/ ~IsLiteral(in[p]) \/ ~IsColon(in[q]) THEN Bad
            ELSE The({IF ~r.ok THEN Bad
                      ELSE ParseNext(in, r,
                               Append(acc, [Key |-> Unescape(in[p].v), Value |-> r.val]),
                               "}")
                      : r \in {ParseValue(in, q + 1)}})
            : q \in {SkipSpace(in, p + 1)}})
        : p \in {SkipSpace(in, p0)}})

ParseElements(in, p0, acc) ==
    The({IF ~r.ok THEN Bad ELSE ParseNext(in, r, Append(acc, r.val), "]")
         : r \in {ParseValue(in, p0)}})

\* checkValid: one value, then nothing but white space.
checkValid(in) ==
    The({IF r.ok /\ SkipSpace(in, r.pos) > Len(in) THEN r ELSE Bad
         : r \in {ParseValue(in, 1)}})

FoldChar(c) ==
    CASE c = "S" -> "s" [] c = "O" -> "o" [] c = "P" -> "p" [] c = "V" -> "v"
      [] c = "L" -> "l" [] OTHER -> c

FoldName(s) == [i \in 1..Len(s) |-> FoldChar(s[i])]

SopsMetadataKey == <<"s", "o", "p", "s">>

VersionTag == <<"v", "e", "r", "s", "i", "o", "n">>

LastModifiedTag == <<"l", "a", "s", "t", "m", "o", "d", "i", "f", "i", "e", "d">>

\* The description encoding/json gives of a JSON value in an UnmarshalTypeError.
ValueDescription(x) ==
    CASE x.k = "numlit" -> "number"
      [] x.k = "strlit" -> "string"
      [] x.k = "word" -> "bool"
      [] x.k = "object" -> "object"
      [] OTHER -> "array"

IsNull(x) == x.k = "word" /\ x.v = "null"

NoError == [Value |-> "", Struct |-> "", Field |-> ""]

UnmarshalTypeError(value, struct, leaf, path) ==
    [Value |-> value, Struct |-> struct,
     Field |-> IF path # "full" THEN leaf
               ELSE IF leaf = "version" THEN "sops.version" ELSE "sops.lastmodified"]

\* decodeState.saveError keeps the first error.
saveError(saved, e) == IF saved = NoError THEN e ELSE saved

ZeroMetadata == [version |-> <<>>, lastmodified |-> <<>>]

\* decodeState.object on a stores.Metadata: st is [md, err].
\* One member m of the object decoded into a stores.Metadata.
decodeMetadataField(m, name, st, path) ==
    IF name \notin {VersionTag, LastModifiedTag} \/ IsNull(m.Value) THEN st
    ELSE IF m.Value.k = "strlit" THEN
        IF name = VersionTag
        THEN [st EXCEPT !.md.version = Unescape(m.Value.v)]
        ELSE [st EXCEPT !.md.lastmodified = Unescape(m.Value.v)]
    ELSE [st EXCEPT !.err = saveError(st.err,
             UnmarshalTypeError(ValueDescription(m.Value), "Metadata",
                 IF name = VersionTag THEN "version" ELSE "lastmodified", path))]

RECURSIVE decodeMetadataFields(_, _, _, _)
decodeMetadataFields(members, i, st, path) ==
    IF i > Len(members) THEN st
    ELSE The({decodeMetadataFields(members, i + 1, next, path)
              : next \in {decodeMetadataField(members[i], FoldName(members[i].Key),
                                              st, path)}})

\* One member m of the object decoded into a stores.SopsFile.
decodeSopsFileField(m, st, path) ==
    IF FoldName(m.Key) # SopsMetadataKey THEN st
    ELSE IF IsNull(m.Value)
    THEN [st EXCEPT !.set = FALSE, !.md = ZeroMetadata]
    ELSE IF m.Value.k = "object" THEN
        The({[set |-> TRUE, md |-> r.md, err |-> r.err]
             : r \in {decodeMetadataFields(m.Value.v, 1,
                          [md |-> st.md, err |-> st.err], path)}})
    ELSE [st EXCEPT !.set = TRUE, !.err = saveError(st.err,
             [Value |-> ValueDescription(m.Value), Struct |-> "SopsFile",
              Field |-> "sops"])]

\* decodeState.object on a stores.SopsFile: st is [set, md, err], set telling
\* whether the Metadata pointer is non-nil.
RECURSIVE decodeSopsFileFields(_, _, _, _)
decodeSopsFileFields(members, i, st, path) ==
    IF i > Len(members) THEN st
    ELSE The({decodeSopsFileFields(members, i + 1, next, path)
              : next \in {decodeSopsFileField(members[i], st, path)}})

\* Returns [err, syntax, set, md]: syntax for a SyntaxError, err for the saved
\* UnmarshalTypeError (NoError when none).
UnmarshalValue(r, path) ==
    IF ~r.ok THEN [syntax |-> TRUE, err |-> NoError, set |-> FALSE, md |-> ZeroMetadata]
    ELSE IF r.val.k = "object" THEN
        The({[syntax |-> FALSE, err |-> st.err, set |-> st.set, md |-> st.md]
             : st \in {decodeSopsFileFields(r.val.v, 1,
                           [set |-> FALSE, md |-> ZeroMetadata, err |-> NoError], path)}})
    ELSE IF IsNull(r.val)
    THEN [syntax |-> FALSE, err |-> NoError, set |-> FALSE, md |-> ZeroMetadata]
    ELSE [syntax |-> FALSE,
          err |-> [Value |-> ValueDescription(r.val), Struct |-> "", Field |-> ""],
          set |-> FALSE, md |-> ZeroMetadata]

Unmarshal(in, path) == The({UnmarshalValue(r, path) : r \in {checkValid(in)}})

(***************************************************************************)
(* The metadata collaborators of package stores: Metadata.ToInternal and   *)
(* MetadataFromInternal.  The internal record is [Version, LastModified],  *)
(* LastModified a time (here a number below 10) that the stored form spells*)
(* "T" followed by its digit; ToInternal fails on any other spelling.      *)
(***************************************************************************)
ValidTime(s) == Len(s) = 2 /\ s[1] = "T" /\ s[2] \in {DigitChar(d) : d \in 0..9}

ToInternal(md) ==
    IF ~ValidTime(md.lastmodified) THEN Err("Could not parse last modified date")
    ELSE Ok([Version |-> md.version, LastModified |-> DigitValue(md.lastmodified[2])])

MetadataFromInternal(m) ==
    [k |-> "Metadata",
     v |-> [version |-> m.Version, lastmodified |-> <<"T", DigitChar(m.LastModified)>>]]

(***************************************************************************)
(* Store.reindentJSON: json.Indent with the configured indent string.      *)
(***************************************************************************)
RECURSIVE Repeat(_, _)
Repeat(c, n) == IF n <= 0 THEN <<>> ELSE <<c>> \o Repeat(c, n - 1)

IndentString(indent) == IF indent > -1 THEN Repeat(" ", indent) ELSE <<"\t">>

RECURSIVE RepeatSeq(_, _)
RepeatSeq(s, n) == IF n <= 0 THEN <<>> ELSE s \o RepeatSeq(s, n - 1)

newline(indent, depth) == Space(<<"\n">> \o RepeatSeq(indent, depth))

IsOpening(c) == c.k = "delim" /\ c.v \in {"{", "["}

IsClosing(c) == c.k = "delim" /\ c.v \in {"}", "]"}

\* The number of objects and arrays open before fragment i.
Level(in, i) ==
    Cardinality({j \in 1..(i - 1) : IsOpening(in[j])})
    - Cardinality({j \in 1..(i - 1) : IsClosing(in[j])})

\* needIndent: the last fragment before i that is not whitespace opened an
\* object or array, whose first line break is still to be written.
NeedIndent(in, i) ==
    \E j \in 1..(i - 1) :
        /\ IsOpening(in[j])
        /\ \A m \in (j + 1)..(i - 1) : in[m].k = "ws"

\* What json.Indent writes for fragment i.
IndentPiece(in, i, indent) ==
    LET c == in[i]
        pre == IF NeedIndent(in, i) THEN <<newline(indent, Level(in, i))>> ELSE <<>>
    IN
    IF c.k = "ws" THEN <<>>
    ELSE IF IsClosing(c)
    THEN IF NeedIndent(in, i) THEN <<c>>
         ELSE <<newline(indent, Level(in, i) - 1), c>>
    ELSE IF IsFrag(c, "punct", ",")
    THEN pre \o <<c, newline(indent, Level(in, i))>>
    ELSE IF IsColon(c) THEN pre \o <<Punct(": ")>>
    ELSE pre \o <<c>>

RECURSIVE IndentRange(_, _, _, _)
IndentRange(in, lo, hi, indent) ==
    IF lo > hi THEN <<>>
    ELSE IF lo = hi THEN IndentPiece(in, lo, indent)
    ELSE LET mid == (lo + hi) \div 2 IN
         IndentRange(in, lo, mid, indent) \o IndentRange(in, mid + 1, hi, indent)

reindentJSON(cfg, in) ==
    IF cfg.Indent < -1
    THEN Err("JSON Indentation parameter smaller than -1 is not accepted")
    ELSE IF ~checkValid(in).ok THEN Err("SyntaxError")
    ELSE Ok(IndentRange(in, 1, Len(in), IndentString(cfg.Indent)))

jsonFromTreeBranch(cfg, branch) ==
    The({IF out.st # "ok" THEN out ELSE reindentJSON(cfg, out.val)
         : out \in {encodeTree(branch)}})

(***************************************************************************)
(* Slices.  A slice is [arr, len]: its backing array up to its capacity    *)
(* and its length.  append writes in place while the capacity allows and   *)
(* moves to a new, larger array otherwise.                                 *)
(***************************************************************************)
SliceItems(s) == SubSeq(s.arr, 1, s.len)

GrowCap(n) == IF n <= 2 THEN n ELSE IF n <= 4 THEN 4 ELSE 8

MakeSlice(items) ==
    [arr |-> items \o [i \in 1..(GrowCap(Len(items)) - Len(items)) |-> ZeroItem],
     len |-> Len(items)]

GoAppend(s, item) ==
    IF s.len < Len(s.arr)
    THEN [arr |-> [s.arr EXCEPT ![s.len + 1] = item], len |-> s.len + 1]
    ELSE MakeSlice(Append(SliceItems(s), item))

(***************************************************************************)
(* Store.LoadEncryptedFile.                                                *)
(***************************************************************************)
LegacyFormatDetected == "SOPS versions higher than 2.0.10 can not automatically decrypt JSON files created with SOPS 1.x"

MetadataDecodeError == "Error unmarshalling input json"

MetadataNotFound == "sops metadata not found"

MalformedDocument == "Could not unmarshal input data"

LoadReturn(st, err, branch, metadata) ==
    [st |-> st, err |-> err, arr |-> branch.arr, len |-> branch.len, metadata |-> metadata]

NilBranch == [arr |-> <<>>, len |-> 0]

ZeroInternal == [Version |-> <<>>, LastModified |-> 0]

LoadError(e) == LoadReturn("err", e, NilBranch, ZeroInternal)

\* The comparison of the discard loop never matching.
IsSopsKeyNever(key) == FALSE

\* item.Key == stores.SopsMetadataKey
IsSopsKey(key) == key.k = "string" /\ key.v = SopsMetadataKey

\* The discard loop leaving the Branch as it is.
DiscardMetadataKeeping(branch, n, i) == Ok(branch)

\* The loop that discards the metadata: i ranges over the indices of the
\* Branch as it was when the loop began, item is read from the backing array.
RECURSIVE DiscardMetadata(_, _, _)
DiscardMetadata(branch, n, i) ==
    IF i >= n THEN Ok(branch)
    ELSE IF ~IsSopsKey(branch.arr[i + 1].Key)
    THEN DiscardMetadata(branch, n, i + 1)
    ELSE IF i + 1 > branch.len THEN Panic("slice bounds out of range")
    ELSE DiscardMetadata(
             [arr |-> [j \in 1..Len(branch.arr) |->
                          IF j >= i + 1 /\ j < branch.len THEN branch.arr[j + 1]
                          ELSE branch.arr[j]],
              len |-> branch.len - 1],
             n, i + 1)

\* LoadEncryptedFile from the ToInternal call on: u is what json.Unmarshal
\* left in the stores.SopsFile.
LoadWithMetadata(in, u) ==
    The({
        IF metadata.st # "ok" THEN LoadError(metadata.err)
        ELSE The({
            IF branch.st # "ok" THEN LoadError(MalformedDocument)
            ELSE The({IF r.st = "panic"
                      THEN LoadReturn("panic", r.err, NilBranch, ZeroInternal)
                      ELSE LoadReturn("ok", "nil", r.val, metadata.val)
                      : r \in {DiscardMetadata(MakeSlice(branch.val),
                                               Len(branch.val), 0)}})
            : branch \in {treeBranchFromJSON(in)}})
        : metadata \in {ToInternal(u.md)}})

LoadEncryptedFile(in, path) ==
    The({
        IF u.syntax THEN LoadError(MetadataDecodeError)
        ELSE IF u.err # NoError THEN
            IF u.err.Value = "number" /\ u.err.Struct = "Metadata"
               /\ u.err.Field = "version"
            THEN LoadError(LegacyFormatDetected)
            ELSE LoadError(MetadataDecodeError)
        ELSE IF ~u.set THEN LoadError(MetadataNotFound)
        ELSE LoadWithMetadata(in, u)
        : u \in {Unmarshal(in, path)}})

(***************************************************************************)
(* Store.LoadPlainFile.                                                    *)
(***************************************************************************)
LoadPlainFile(in) ==
    The({IF branch.st # "ok" THEN LoadError(MalformedDocument)
         ELSE LoadReturn("ok", "nil", MakeSlice(branch.val), ZeroInternal)
         : branch \in {treeBranchFromJSON(in)}})

(***************************************************************************)
(* Store.EmitEncryptedFile, Store.EmitPlainFile, Store.EmitValue.          *)
(***************************************************************************)
EmitEncryptedTree(in) ==
    GoAppend([arr |-> in.arr, len |-> in.len],
             TreeItem(GoString(SopsMetadataKey), MetadataFromInternal(in.metadata)))

EmitEncryptedFile(cfg, in) ==
    The({IF out.st = "panic" THEN out
         ELSE IF out.st = "err" THEN Err("Error marshaling to json")
         ELSE Ok(Append(out.val, Space(<<"\n">>)))
         : out \in {jsonFromTreeBranch(cfg, SliceItems(EmitEncryptedTree(in)))}})

EmitPlainFile(cfg, in) ==
    The({IF out.st = "panic" THEN out
         ELSE IF out.st = "err" THEN Err("Error marshaling to json")
         ELSE Ok(Append(out.val, Space(<<"\n">>)))
         : out \in {jsonFromTreeBranch(cfg, SliceItems(in))}})

EmitValue(cfg, v) ==
    The({IF s.st # "ok" THEN s ELSE reindentJSON(cfg, s.val) : s \in {encodeValue(v)}})

(***************************************************************************)
(* The callers' inputs.  Trees handed to the Emit operations: Branches of  *)
(* at most MaxItems Items drawn from TreeItems, with either Metadata.      *)
(***************************************************************************)
StrC == <<"c">>
StrQ == <<"q", "\"", "\\">>
KeyA == GoString(<<"a">>)
KeyB == GoString(<<"b">>)

NestedSlice ==
    Slice(<<Comment(StrC), GoFloat(7), Comment(StrC), Comment(StrC),
            TreeBranch(<<TreeItem(Comment(StrC), GoNil), TreeItem(KeyA, GoNil),
                         TreeItem(Comment(StrC), GoNil)>>),
            Slice(<<GoBool(FALSE), Comment(StrC)>>), Comment(StrC)>>)

NestedBranch ==
    TreeBranch(<<TreeItem(Comment(StrC), GoNil),
                 TreeItem(KeyB, Slice(<<Comment(StrC), GoBool(TRUE)>>)),
                 TreeItem(Comment(StrC), GoNil), TreeItem(Comment(StrC), GoNil),
                 TreeItem(KeyA, TreeBranch(<<TreeItem(Comment(StrC), GoNil)>>)),
                 TreeItem(GoString(StrQ), Slice(<<Comment(StrC), Comment(StrC)>>)),
                 TreeItem(KeyB, GoFloat(120))>>)

TreeItems ==
    {TreeItem(GoString(StrQ), GoString(StrQ)),
     TreeItem(Comment(StrC), GoNil),
     TreeItem(KeyA, NestedSlice),
     TreeItem(KeyB, NestedBranch),
     TreeItem(GoString(SopsMetadataKey), GoString(StrC)),
     TreeItem(GoString(<<"S", "o", "p", "s">>), GoFloat(12)),
     TreeItem(GoInt(1), GoFloat(12)),
     TreeItem(KeyA, GoChan),
     TreeItem(KeyB, Slice(<<TreeBranch(<<TreeItem(GoInt(1), GoNil)>>)>>))}

SeqsUpTo(S, n) == UNION {[1..m -> S] : m \in 0..n}

Metadatas ==
    {[Version |-> <<"3", ".", "9">>, LastModified |-> 1],
     [Version |-> StrQ, LastModified |-> 2]}

Indents == {-2, -1, 2}

NoBytes == <<>>

TreeInput(items, metadata) ==
    [kind |-> "tree", arr |-> items, len |-> Len(items), metadata |-> metadata,
     bytes |-> NoBytes]

NoEmit == [op |-> "none", arg |-> GoNil, st |-> "none", val |-> <<>>, err |-> "nil"]

NoLoad == [op |-> "none", st |-> "none", err |-> "nil", arr |-> <<>>, len |-> 0,
           metadata |-> ZeroInternal]

\* A Tree whose body Branch is the first n Items of storage: a Branch of
\* length n and capacity Len(storage), the Items behind it belonging to the
\* Branch it was sliced from.
SharedInput(storage, n, metadata) ==
    [kind |-> "tree", arr |-> storage, len |-> n, metadata |-> metadata,
     bytes |-> NoBytes]

InitEmit ==
    /\ config \in {[Indent |-> n] : n \in Indents}
    /\ fieldPath = "full"
    /\ input \in {TreeInput(items, m) : items \in SeqsUpTo(TreeItems, MaxItems),
                                        m \in Metadatas}
    /\ emitted = NoEmit
    /\ loaded = NoLoad
    /\ repeats = 0

(***************************************************************************)
(* Files handed to the Load operations: an object of at most MaxItems      *)
(* members drawn from FileMembers, cut after any number of fragments.      *)
(***************************************************************************)
Member(key, value) == [key |-> key, value |-> value]

KeyLit(s) == StrLit(s)

MetadataObject(first, firstValue, second, secondValue) ==
    <<Delim("{"), StrLit(first), Punct(":"), firstValue, Punct(","),
      StrLit(second), Punct(":"), secondValue, Delim("}")>>

FileMembers ==
    {Member(KeyLit(<<"a">>), <<StrLit(<<"x">>)>>),
     Member(KeyLit(<<"b">>),
            <<Delim("["), NumLit(<<"1">>), Punct(","), Delim("{"), StrLit(<<"c">>),
              Punct(":"), Word("true"), Delim("}"), Delim("]")>>),
     Member(NumLit(<<"1">>), <<StrLit(<<"x">>)>>),
     Member(KeyLit(SopsMetadataKey),
            MetadataObject(LastModifiedTag, StrLit(<<"T", "1">>), VersionTag, StrLit(<<"3">>))),
     Member(KeyLit(SopsMetadataKey),
            MetadataObject(LastModifiedTag, StrLit(<<"T", "1">>), VersionTag, NumLit(<<"2">>))),
     Member(KeyLit(SopsMetadataKey),
            MetadataObject(LastModifiedTag, NumLit(<<"5">>), VersionTag, NumLit(<<"2">>))),
     Member(KeyLit(SopsMetadataKey),
            MetadataObject(VersionTag, NumLit(<<"2">>), LastModifiedTag, NumLit(<<"5">>))),
     Member(KeyLit(SopsMetadataKey), <<NumLit(<<"1">>)>>),
     Member(KeyLit(SopsMetadataKey), <<Word("null")>>),
     Member(KeyLit(<<"S", "o", "p", "s">>),
            MetadataObject(LastModifiedTag, StrLit(<<"T", "1">>), VersionTag, StrLit(<<"3">>)))}

RECURSIVE FileMembersText(_, _)
FileMembersText(members, i) ==
    IF i > Len(members) THEN <<>>
    ELSE (IF i > 1 THEN <<Punct(",")>> ELSE <<>>)
         \o <<members[i].key, Punct(":")>> \o members[i].value
         \o FileMembersText(members, i + 1)

FileText(members) == <<Delim("{")>> \o FileMembersText(members, 1) \o <<Delim("}")>>

BytesInput(bytes) ==
    [kind |-> "bytes", arr |-> <<>>, len |-> 0, metadata |-> ZeroInternal, bytes |-> bytes]

Files ==
    UNION {{SubSeq(FileText(members), 1, n) : n \in 1..Len(FileText(members))} :
           members \in SeqsUpTo(FileMembers, MaxItems)}

InitLoad ==
    /\ config = [Indent |-> -1]
    /\ fieldPath \in {"leaf", "full"}
    /\ input \in {BytesInput(bytes) : bytes \in Files}
    /\ emitted = NoEmit
    /\ loaded = NoLoad
    /\ repeats = 0

(***************************************************************************)
(* The operations as the caller's steps.                                   *)
(***************************************************************************)
\* arg is the value the call handed to the encoder.
EmitOf(op, arg, r) == [op |-> op, arg |-> arg, st |-> r.st, val |-> r.val, err |-> r.err]

LoadOf(op, r) == [op |-> op, st |-> r.st, err |-> r.err, arr |-> r.arr, len |-> r.len,
                  metadata |-> r.metadata]

\* The bytes the caller can load: the file it holds, or the file it emitted.
HasBytes ==
    \/ input.kind = "bytes"
    \/ emitted.st = "ok" /\ emitted.op \in {"EmitEncryptedFile", "EmitPlainFile"}

Bytes == IF input.kind = "bytes" THEN input.bytes ELSE emitted.val

DoEmitEncryptedFile ==
    /\ input.kind = "tree" /\ emitted = NoEmit
    /\ emitted' = EmitOf("EmitEncryptedFile", TreeBranch(SliceItems(EmitEncryptedTree(input))),
                         EmitEncryptedFile(config, input))
    \* append writes the metadata Item into the caller's backing array when
    \* the Branch has spare capacity.
    /\ input' = IF input.len < Len(input.arr)
                THEN [input EXCEPT !.arr = EmitEncryptedTree(input).arr]
                ELSE input
    /\ UNCHANGED <<config, fieldPath, loaded, repeats>>

DoEmitPlainFile ==
    /\ input.kind = "tree" /\ emitted = NoEmit
    /\ emitted' = EmitOf("EmitPlainFile", TreeBranch(SliceItems(input)),
                         EmitPlainFile(config, [arr |-> input.arr, len |-> input.len]))
    /\ UNCHANGED <<config, fieldPath, input, loaded, repeats>>

DoEmitValue ==
    /\ input.kind = "tree" /\ emitted = NoEmit
    /\ \E v \in {TreeBranch(SliceItems(input))}
                \cup {input.arr[i].Value : i \in 1..input.len} :
           emitted' = EmitOf("EmitValue", v, EmitValue(config, v))
    /\ UNCHANGED <<config, fieldPath, input, loaded, repeats>>

DoLoadEncryptedFile ==
    /\ HasBytes /\ loaded = NoLoad
    /\ loaded' = LoadOf("LoadEncryptedFile", LoadEncryptedFile(Bytes, fieldPath))
    /\ UNCHANGED <<config, fieldPath, input, emitted, repeats>>

DoLoadPlainFile ==
    /\ HasBytes /\ loaded = NoLoad
    /\ loaded' = LoadOf("LoadPlainFile", LoadPlainFile(Bytes))
    /\ UNCHANGED <<config, fieldPath, input, emitted, repeats>>

\* Another call of EmitEncryptedFile on the Tree the caller still holds.
DoEmitEncryptedFileAgain ==
    /\ input.kind = "tree" /\ emitted.op = "EmitEncryptedFile"
    /\ repeats < MaxRepeats
    /\ emitted' = EmitOf("EmitEncryptedFile", TreeBranch(SliceItems(EmitEncryptedTree(input))),
                         EmitEncryptedFile(config, input))
    /\ input' = IF input.len < Len(input.arr)
                THEN [input EXCEPT !.arr = EmitEncryptedTree(input).arr]
                ELSE input
    /\ repeats' = repeats + 1
    /\ UNCHANGED <<config, fieldPath, loaded>>

NextEmit ==
    \/ DoEmitEncryptedFile
    \/ DoEmitPlainFile
    \/ DoEmitValue
    \/ DoLoadEncryptedFile
    \/ DoLoadPlainFile

NextLoad ==
    \/ DoLoadEncryptedFile
    \/ DoLoadPlainFile

InitShared ==
    /\ config \in {[Indent |-> n] : n \in Indents}
    /\ fieldPath = "full"
    /\ input \in {SharedInput(storage, n, m) :
                      storage \in SeqsUpTo(TreeItems, MaxItems),
                      n \in 0..MaxItems, m \in Metadatas}
    /\ input.len <= Len(input.arr)
    /\ emitted = NoEmit
    /\ loaded = NoLoad
    /\ repeats = 0

NextShared ==
    \/ DoEmitEncryptedFile
    \/ DoEmitEncryptedFileAgain

SpecEmit == InitEmit /\ [][NextEmit]_vars

SpecLoad == InitLoad /\ [][NextLoad]_vars

SpecShared == InitShared /\ [][NextShared]_vars

(***************************************************************************)
(* Vocabulary of the properties.                                           *)
(***************************************************************************)
\* The value with every comment entry left out, at every nesting level.
RECURSIVE StripComments(_), StripItems(_), StripElems(_)
StripItems(items) ==
    IF items = <<>> THEN <<>>
    ELSE IF Head(items).Key.k = "Comment" THEN StripItems(Tail(items))
    ELSE <<TreeItem(Head(items).Key, StripComments(Head(items).Value))>>
         \o StripItems(Tail(items))

StripElems(elems) ==
    IF elems = <<>> THEN <<>>
    ELSE IF Head(elems).k = "Comment" THEN StripElems(Tail(elems))
    ELSE <<StripComments(Head(elems))>> \o StripElems(Tail(elems))

StripComments(v) ==
    CASE v.k = "TreeBranch" -> TreeBranch(StripItems(v.v))
      [] v.k = "slice" -> Slice(StripElems(v.v))
      [] OTHER -> v

\* A value of the store's data model: Branches keyed by strings or comments,
\* arrays, and the scalars that JSON has.
RECURSIVE Encodable(_), EncodableItems(_), EncodableElems(_)
EncodableItems(items) ==
    IF items = <<>> THEN TRUE
    ELSE /\ \/ Head(items).Key.k = "Comment"
            \/ Head(items).Key.k = "string" /\ Encodable(Head(items).Value)
         /\ EncodableItems(Tail(items))

EncodableElems(elems) ==
    IF elems = <<>> THEN TRUE
    ELSE /\ Head(elems).k = "Comment" \/ Encodable(Head(elems))
         /\ EncodableElems(Tail(elems))

Encodable(v) ==
    CASE v.k = "TreeBranch" -> EncodableItems(v.v)
      [] v.k = "slice" -> EncodableElems(v.v)
      [] OTHER -> v.k \in {"string", "float64", "bool", "nil", "Metadata"}

\* Some Item the encoder visits has a Key that is neither string nor comment.
RECURSIVE HasInvalidKey(_), InvalidKeyInItems(_), InvalidKeyInElems(_)
InvalidKeyInItems(items) ==
    IF items = <<>> THEN FALSE
    ELSE \/ Head(items).Key.k \notin {"string", "Comment"}
         \/ Head(items).Key.k = "string" /\ HasInvalidKey(Head(items).Value)
         \/ InvalidKeyInItems(Tail(items))

InvalidKeyInElems(elems) ==
    IF elems = <<>> THEN FALSE
    ELSE HasInvalidKey(Head(elems)) \/ InvalidKeyInElems(Tail(elems))

HasInvalidKey(v) ==
    CASE v.k = "TreeBranch" -> InvalidKeyInItems(v.v)
      [] v.k = "slice" -> InvalidKeyInElems(v.v)
      [] OTHER -> FALSE

ReservedKey(key) == key.k = "string" /\ key.v = SopsMetadataKey

ReservedCount(items) == Cardinality({i \in 1..Len(items) : ReservedKey(items[i].Key)})

InputBranch == TreeBranch(SubSeq(input.arr, 1, input.len))

LoadedItems == SubSeq(loaded.arr, 1, loaded.len)

ValidIndent == config.Indent >= -1

\* The emitted text without its whitespace.
NonSpace(text) == SelectSeq(text, LAMBDA f : f.k # "ws")

\* The rendering the format prescribes: the entries in order, one separator
\* between two consecutive entries and none elsewhere.
RECURSIVE Joined(_)
Joined(parts) ==
    IF parts = <<>> THEN <<>>
    ELSE IF Len(parts) = 1 THEN parts[1]
    ELSE parts[1] \o <<Punct(",")>> \o Joined(Tail(parts))

ColonSpaced(text) == [i \in 1..Len(text) |->
                          IF text[i] = Punct(":") THEN Punct(": ") ELSE text[i]]

RECURSIVE Rendering(_)
Rendering(v) ==
    CASE v.k = "TreeBranch" ->
            <<Delim("{")>>
            \o Joined([i \in 1..Len(v.v) |->
                          MarshalString(v.v[i].Key.v) \o <<Punct(": ")>>
                          \o Rendering(v.v[i].Value)])
            \o <<Delim("}")>>
      [] v.k = "slice" ->
            <<Delim("[")>> \o Joined([i \in 1..Len(v.v) |-> Rendering(v.v[i])])
            \o <<Delim("]")>>
      [] OTHER -> ColonSpaced(Marshal(v).val)

(***************************************************************************)
(* C1: a tree written by EmitPlainFile and read back by LoadPlainFile has  *)
(* the same Items in the same order as the tree written, at every nesting  *)
(* level, once the comment entries are left out.                           *)
(***************************************************************************)
C1_RoundTripKeepsOrder ==
    (emitted.op = "EmitPlainFile" /\ Encodable(InputBranch) /\ ValidIndent)
    => /\ emitted.st = "ok"
       /\ loaded.op = "LoadPlainFile"
          => loaded.st = "ok" /\ LoadedItems = StripItems(InputBranch.v)

C1_Witness ==
    /\ emitted.op = "EmitPlainFile" /\ Encodable(InputBranch) /\ ValidIndent
    /\ loaded.op = "LoadPlainFile" /\ loaded.st = "ok"
    /\ input.len = 3 /\ loaded.len = 3
    /\ \A i, j \in 1..3 : i # j => input.arr[i].Key # input.arr[j].Key
    /\ \E i \in 1..3 : input.arr[i].Value.k = "TreeBranch"
    /\ \E i \in 1..3 : input.arr[i].Value.k = "slice"

(***************************************************************************)
(* C7: the text the encoder writes is that of the value without its        *)
(* comment entries: every other entry in order, exactly one separator      *)
(* between two consecutive entries, none leading, trailing or doubled.     *)
(***************************************************************************)
C7_CommentsOmittedSeparatorsSingle ==
    (emitted.op # "none" /\ Encodable(emitted.arg) /\ ValidIndent)
    => /\ emitted.st = "ok"
       /\ NonSpace(emitted.val) = Rendering(StripComments(emitted.arg))

C7_Witness ==
    /\ emitted.op = "EmitValue" /\ emitted.st = "ok" /\ ValidIndent
    /\ emitted.arg = NestedSlice
    /\ NonSpace(emitted.val) = Rendering(StripComments(NestedSlice))

(***************************************************************************)
(* The document of a Load step as JSON text has it, and as the generic     *)
(* Decoder returns it.                                                     *)
(***************************************************************************)
Document == checkValid(Bytes)

IsObjectDocument == input.kind = "bytes" /\ Document.ok /\ Document.val.k = "object"

TopMembers == Document.val.v

DecodedBranch == treeBranchFromJSON(Bytes)

TopKeys(text) == LET members == checkValid(text).val.v IN
                 [i \in 1..Len(members) |-> members[i].Key]

RECURSIVE RemoveFirstReserved(_)
RemoveFirstReserved(items) ==
    IF items = <<>> THEN <<>>
    ELSE IF ReservedKey(Head(items).Key) THEN Tail(items)
    ELSE <<Head(items)>> \o RemoveFirstReserved(Tail(items))

(***************************************************************************)
(* C2 as stated: whenever LoadEncryptedFile returns successfully, the body *)
(* Branch has no top-level Item with the reserved metadata key, however    *)
(* often and wherever that key occurs in the document.                     *)
(***************************************************************************)
C2_BodyNeverHoldsReservedKey ==
    (loaded.op = "LoadEncryptedFile" /\ loaded.st = "ok")
    => ReservedCount(LoadedItems) = 0

(***************************************************************************)
(* C2 amended: whenever LoadEncryptedFile returns successfully on a        *)
(* document whose top level holds the reserved metadata key at most once,  *)
(* the body Branch has no top-level Item with that key.                    *)
(***************************************************************************)
C2_BodyHoldsNoReservedKeyWhenNotDuplicated ==
    (/\ input.kind = "bytes"
     /\ loaded.op = "LoadEncryptedFile" /\ loaded.st = "ok"
     /\ ReservedCount(DecodedBranch.val) <= 1)
    => ReservedCount(LoadedItems) = 0

C2_Witness ==
    /\ input.kind = "bytes"
    /\ loaded.op = "LoadEncryptedFile" /\ loaded.st = "ok"
    /\ Len(DecodedBranch.val) = 3
    /\ ReservedKey(DecodedBranch.val[2].Key)
    /\ ReservedCount(DecodedBranch.val) = 1
    /\ loaded.len = 2

(***************************************************************************)
(* C3 as stated: for every body D and Metadata M, LoadEncryptedFile of the *)
(* bytes of EmitEncryptedFile(D, M) succeeds and returns D and M.          *)
(***************************************************************************)
C3_LoadOfEmitReturnsInput ==
    (emitted.op = "EmitEncryptedFile" /\ loaded.op = "LoadEncryptedFile")
    => /\ loaded.st = "ok"
       /\ LoadedItems = InputBranch.v
       /\ loaded.metadata = input.metadata

NoKeyLikeReserved(items) ==
    \A i \in 1..Len(items) :
        items[i].Key.k = "string" => FoldName(items[i].Key.v) # SopsMetadataKey

(***************************************************************************)
(* C3 amended: for every body D of the data model (string or comment keys, *)
(* JSON values) none of whose top-level keys is the reserved key in any    *)
(* letter case, and an indentation of at least -1, EmitEncryptedFile       *)
(* succeeds and LoadEncryptedFile of its bytes returns M and D without its *)
(* comment entries.                                                        *)
(***************************************************************************)
C3_LoadOfEmitReturnsInputWithoutComments ==
    (/\ emitted.op = "EmitEncryptedFile"
     /\ Encodable(InputBranch) /\ NoKeyLikeReserved(InputBranch.v) /\ ValidIndent)
    => /\ emitted.st = "ok"
       /\ loaded.op = "LoadEncryptedFile"
          => /\ loaded.st = "ok"
             /\ LoadedItems = StripItems(InputBranch.v)
             /\ loaded.metadata = input.metadata

C3_Witness ==
    /\ emitted.op = "EmitEncryptedFile"
    /\ Encodable(InputBranch) /\ NoKeyLikeReserved(InputBranch.v) /\ ValidIndent
    /\ loaded.op = "LoadEncryptedFile" /\ loaded.st = "ok"
    /\ input.len = 3 /\ loaded.len = 2
    /\ loaded.metadata = input.metadata /\ input.metadata.Version = StrQ

(***************************************************************************)
(* C4 as stated: every input of LoadPlainFile that opens an object but is  *)
(* not a well-formed document (a key that is no string, or the input       *)
(* ending before the top-level object is closed) makes it return an error, *)
(* never a truncated Branch.                                               *)
(***************************************************************************)
C4_MalformedStreamFails ==
    (/\ loaded.op = "LoadPlainFile" /\ input.kind = "bytes"
     /\ IsFrag(Bytes[1], "delim", "{")
     /\ ~Document.ok)
    => loaded.st = "err"

(***************************************************************************)
(* C5 as stated: when the decoded top-level Branch holds the reserved key  *)
(* more than once and the metadata decodes, LoadEncryptedFile returns      *)
(* normally and the body is the decoded Branch without its first           *)
(* reserved-key Item, all other Items kept in order.                       *)
(***************************************************************************)
C5_OnlyFirstReservedItemRemoved ==
    (/\ input.kind = "bytes"
     /\ loaded.op = "LoadEncryptedFile" /\ loaded.st # "err"
     /\ ReservedCount(DecodedBranch.val) > 1)
    => /\ loaded.st = "ok"
       /\ LoadedItems = RemoveFirstReserved(DecodedBranch.val)

(***************************************************************************)
(* C6 as stated: encoding a value that holds, at any nesting level, an     *)
(* Item whose Key is neither a string nor a Comment returns an error to    *)
(* the caller, without a panic and without output bytes.                   *)
(***************************************************************************)
C6_InvalidKeyIsReturnedAsError ==
    (emitted.op # "none" /\ HasInvalidKey(emitted.arg))
    => emitted.st = "err" /\ emitted.val = <<>>

\* The document is well formed and the version field of a metadata object
\* under the reserved key is a bare number.
HasNumericVersion ==
    /\ IsObjectDocument
    /\ \E i \in 1..Len(TopMembers) :
           /\ TopMembers[i].Key = SopsMetadataKey
           /\ TopMembers[i].Value.k = "object"
           /\ \E j \in 1..Len(TopMembers[i].Value.v) :
                  /\ TopMembers[i].Value.v[j].Key = VersionTag
                  /\ TopMembers[i].Value.v[j].Value.k = "numlit"

(***************************************************************************)
(* C8 as stated: every document whose metadata version field is a bare     *)
(* number makes LoadEncryptedFile fail with LegacyFormatDetected, also     *)
(* when other metadata fields mismatch or precede the version field.       *)
(***************************************************************************)
C8_NumericVersionIsLegacyFormat ==
    (loaded.op = "LoadEncryptedFile" /\ HasNumericVersion)
    => loaded.st = "err" /\ loaded.err = LegacyFormatDetected

HasNoReservedKey ==
    /\ IsObjectDocument
    /\ \A i \in 1..Len(TopMembers) : TopMembers[i].Key # SopsMetadataKey

(***************************************************************************)
(* C9 as stated: on a well-formed object document without the reserved key *)
(* at its top level LoadEncryptedFile fails with MetadataNotFound, and     *)
(* LoadPlainFile succeeds with one Branch of all top-level Items in order. *)
(***************************************************************************)
C9_MissingMetadataIsNotFound ==
    HasNoReservedKey
    => /\ loaded.op = "LoadEncryptedFile"
          => loaded.st = "err" /\ loaded.err = MetadataNotFound
       /\ loaded.op = "LoadPlainFile"
          => /\ loaded.st = "ok"
             /\ loaded.len = Len(TopMembers)
             /\ \A i \in 1..Len(TopMembers) :
                    loaded.arr[i].Key = GoString(TopMembers[i].Key)

(***************************************************************************)
(* C10 as stated: the top-level object EmitEncryptedFile emits holds the   *)
(* reserved key exactly once, in its last Item, for every input Tree.      *)
(***************************************************************************)
C10_ReservedKeyEmittedOnce ==
    (emitted.op = "EmitEncryptedFile" /\ emitted.st = "ok")
    => LET keys == TopKeys(emitted.val) IN
       /\ Len(keys) > 0
       /\ keys[Len(keys)] = SopsMetadataKey
       /\ Cardinality({i \in 1..Len(keys) : keys[i] = SopsMetadataKey}) = 1

(***************************************************************************)
(* EmitEncryptedFile and the caller's Tree.                                *)
(***************************************************************************)
\* The caller's body Branch: the Items within its length.
BodyItems(in) == SubSeq(in.arr, 1, in.len)

\* The Items behind the body Branch in its backing array: those of the
\* Branches that share the storage.
SharedItems(in) == SubSeq(in.arr, in.len + 1, Len(in.arr))

\* C11: a call of EmitEncryptedFile leaves the caller's body Branch with the
\* same length and the same Items in the same order.
C11_BodyBranchUnchanged ==
    [][input.kind = "tree" /\ input'.kind = "tree"
       => input'.len = input.len /\ BodyItems(input') = BodyItems(input)]_vars

\* C11: a repeated call of EmitEncryptedFile returns what the call before it
\* returned.
C11_RepeatedCallsEmitTheSame ==
    [][repeats' # repeats => emitted' = emitted]_vars

\* C11: EmitEncryptedFile is side-effect-free on its input: after any number
\* of calls on the same Tree the body Branch has the same length and the same
\* Items in the same order, no Item of a Branch sharing its backing storage
\* is overwritten, and repeated calls emit the same bytes.
C11_EmitEncryptedFileLeavesInputAlone ==
    [][input.kind = "tree" /\ input'.kind = "tree"
       => /\ input'.len = input.len
          /\ BodyItems(input') = BodyItems(input)
          /\ SharedItems(input') = SharedItems(input)
          /\ repeats' # repeats => emitted'.val = emitted.val]_vars

\* C11: a state after two calls of EmitEncryptedFile on a body Branch with
\* spare capacity, its metadata Item written over the Item behind the Branch.
C11_MetadataWrittenBehindBody ==
    /\ repeats >= 1 /\ emitted.st = "ok"
    /\ input.len < Len(input.arr)
    /\ IsSopsKey(input.arr[input.len + 1].Key)

====
